---- MODULE Spec2Model ----
(***************************************************************************)
(* CineFlix movie catalogue (src/localstorage.js): the Pelicula record,    *)
(* its validator and serialisation, and PeliculaManager's load, persist    *)
(* and CRUD operations over localStorage['cineflix_peliculas'].            *)
(*                                                                         *)
(* JavaScript values are tagged records.  Numbers are fixed-point with one *)
(* decimal digit: Num(n) stands for n/10, so Num(19990) is 1999 and        *)
(* Num(87) is 8.7.                                                         *)
(***************************************************************************)
EXTENDS Integers, Sequences, FiniteSets, TLC

VARIABLES
    store,      \* localStorage['cineflix_peliculas']: absent or a text
    peliculas,  \* PeliculaManager.peliculas
    mgr,        \* "none" (no manager yet), "ready", "failed" (constructor threw)
    now,        \* the clock read by Date.now() and new Date()
    nops,       \* number of manager calls made so far
    res,        \* what the last manager call was given and gave back
    prev,       \* the call before the last one: its name and outcome
    usuarios,   \* localStorage['cineflix_users']: absent or a text
    sesion      \* localStorage['cineflix_session']: absent or a text

vars == <<store, peliculas, mgr, now, nops, res, prev, usuarios, sesion>>

---------------------------------------------------------------------------
\* Bounds of the model.
MaxOps == 3
MaxClock == 1
NumSeeds == 2

---------------------------------------------------------------------------
\* JavaScript values.
Undef == [t |-> "undefined"]
Null == [t |-> "null"]
NaN == [t |-> "nan"]
Num(n) == [t |-> "num", n |-> n]
Str(s) == [t |-> "str", s |-> s]

\* ToBoolean(v) is false.
Falsy(v) ==
    \/ v.t \in {"undefined", "null", "nan"}
    \/ v.t = "num" /\ v.n = 0
    \/ v.t = "str" /\ v.s = ""

\* The i-th character of text s.
Char(s, i) == SubSeq(s, i, i)

\* The characters of text s.
Chars(s) == {Char(s, i) : i \in 1..Len(s)}

WhiteSpace == {" ", "\t", "\n"}

RECURSIVE TrimStart(_)
TrimStart(s) ==
    IF s # "" /\ Head(s) \in WhiteSpace THEN TrimStart(Tail(s)) ELSE s

RECURSIVE TrimEnd(_)
TrimEnd(s) ==
    IF s # "" /\ Char(s, Len(s)) \in WhiteSpace
    THEN TrimEnd(SubSeq(s, 1, Len(s) - 1))
    ELSE s

\* String.prototype.trim
Trim(s) == TrimEnd(TrimStart(s))

Digits == "0123456789"
DigitVal(c) == (CHOOSE i \in 1..10 : Char(Digits, i) = c) - 1

\* Length of the longest prefix of s made of characters of set cs.
RECURSIVE Run(_, _)
Run(s, cs) ==
    IF s # "" /\ Head(s) \in cs THEN 1 + Run(Tail(s), cs) ELSE 0

\* Length of the longest prefix of s made of digits.
DigitRun(s) == Run(s, Chars(Digits))

\* Value of a text of digits.
RECURSIVE DigitsVal(_)
DigitsVal(s) ==
    IF s = "" THEN 0
    ELSE 10 * DigitsVal(SubSeq(s, 1, Len(s) - 1)) + DigitVal(Char(s, Len(s)))

\* The number written by ni digits at the start of u and, when nf > 0, a
\* decimal point and nf more digits.  The value is in tenths: digits after
\* the first decimal are dropped.  NaN when there is no digit at all.
Magnitude(u, ni, nf) ==
    IF ni = 0 /\ nf = 0 THEN NaN
    ELSE Num(10 * DigitsVal(SubSeq(u, 1, ni))
             + (IF nf > 0 THEN DigitVal(Char(u, ni + 2)) ELSE 0))

\* The unsigned numeric literal at the start of u, with a fraction when frac.
Unsigned(u, ni, frac) ==
    Magnitude(u, ni,
              IF frac /\ Len(u) > ni /\ Char(u, ni + 1) = "."
              THEN DigitRun(SubSeq(u, ni + 2, Len(u))) ELSE 0)

Negate(v) == IF v.t = "num" THEN Num(0 - v.n) ELSE v

\* The numeric literal at the start of t: an optional sign, then digits.
Signed(t, frac) ==
    IF t # "" /\ Head(t) = "-"
    THEN Negate(Unsigned(Tail(t), DigitRun(Tail(t)), frac))
    ELSE IF t # "" /\ Head(t) = "+"
    THEN Unsigned(Tail(t), DigitRun(Tail(t)), frac)
    ELSE Unsigned(t, DigitRun(t), frac)

\* The numeric literal at the start of text s, after leading white space.
NumberPrefix(s, frac) == Signed(TrimStart(s), frac)

\* Global parseInt(v): the integer that starts String(v).
parseInt(v) ==
    CASE v.t = "num" -> Num(IF v.n >= 0 THEN (v.n \div 10) * 10
                            ELSE 0 - (((0 - v.n) \div 10) * 10))
      [] v.t = "str" -> NumberPrefix(v.s, FALSE)
      [] OTHER -> NaN

\* Global parseFloat(v): the decimal that starts String(v).
parseFloat(v) ==
    CASE v.t = "num" -> v
      [] v.t = "str" -> NumberPrefix(v.s, TRUE)
      [] OTHER -> NaN

\* Date.prototype.toISOString of the instant t, and the year of that instant.
toISOString(t) == Str("2026-11-01T12:00:00.00" \o ToString(t) \o "Z")
getFullYear(t) == 2026 + t

---------------------------------------------------------------------------
\* class Pelicula

\* Math.random().toString(36).substr(2, 9).  Math.random is taken never to
\* repeat itself: the text drawn is made of the number n of manager calls
\* made so far and of the number i of the draw within the call.
RandomPart(n, i) == "r" \o ToString(n) \o ToString(i)

\* Pelicula.generarID at instant t, with r the random part.
generarID(t, r) == Str("movie_" \o ToString(t) \o "_" \o r)

\* new Pelicula(d.titulo, ..., d.imagen, id) at instant t; r is the random
\* part generarID would use.
NewPelicula(d, id, t, r) ==
    [id |-> IF Falsy(id) THEN generarID(t, r) ELSE id,
     titulo |-> d.titulo,
     genero |-> d.genero,
     director |-> d.director,
     ano |-> parseInt(d.ano),
     calificacion |-> parseFloat(d.calificacion),
     descripcion |-> d.descripcion,
     imagen |-> d.imagen,
     fechaCreacion |-> toISOString(t)]

LowerCase == "abcdefghijklmnopqrstuvwxyzáéíóúñ"
UpperCase == "ABCDEFGHIJKLMNOPQRSTUVWXYZÁÉÍÓÚÑ"

\* String.prototype.toLowerCase, one character and a whole text.
LowerChar(c) ==
    IF c \in Chars(UpperCase)
    THEN Char(LowerCase, CHOOSE i \in 1..Len(UpperCase) : Char(UpperCase, i) = c)
    ELSE c

RECURSIVE toLowerCase(_)
toLowerCase(s) ==
    IF Len(s) <= 1 THEN LowerChar(s)
    ELSE toLowerCase(SubSeq(s, 1, Len(s) \div 2))
         \o toLowerCase(SubSeq(s, Len(s) \div 2 + 1, Len(s)))

\* ASCII letters, and the characters of a host name.
Letters == Chars("abcdefghijklmnopqrstuvwxyzABCDEFGHIJKLMNOPQRSTUVWXYZ")
HostChars == Letters \cup Chars(Digits) \cup {".", "-"}

SpecialSchemes ==
    {"http", "https", "ftp", "ws", "wss"}

\* The host that starts text h is not empty and ends at a delimiter.
HostOk(h, nh) ==
    /\ nh > 0
    /\ (Len(h) > nh => Char(h, nh + 1) \in {"/", "?", "#", ":"})

\* What follows the slashes that start text a.
AfterSlashes(a) == SubSeq(a, Run(a, {"/", "\\"}) + 1, Len(a))

\* Text u starts with a scheme of ns letters and a colon; a special scheme
\* is followed by a host.
SchemeOk(u, ns) ==
    /\ ns > 0
    /\ Len(u) > ns
    /\ Char(u, ns + 1) = ":"
    /\ (toLowerCase(SubSeq(u, 1, ns)) \in SpecialSchemes =>
          HostOk(AfterSlashes(SubSeq(u, ns + 2, Len(u))),
                 Run(AfterSlashes(SubSeq(u, ns + 2, Len(u))), HostChars)))

validarURL(v) ==
    IF v.t # "str" THEN FALSE
    ELSE SchemeOk(Trim(v.s), Run(Trim(v.s), Letters))

\* A validar that stops at the first rule broken.
validar_primerError(p, t) ==
    LET errores ==
          IF Falsy(p.titulo) \/ Len(Trim(p.titulo.s)) < 2
          THEN <<"El título debe tener al menos 2 caracteres">>
          ELSE IF Falsy(p.genero)
          THEN <<"Debe seleccionar un género">>
          ELSE IF Falsy(p.director) \/ Len(Trim(p.director.s)) < 2
          THEN <<"El director debe tener al menos 2 caracteres">>
          ELSE IF Falsy(p.ano) \/ p.ano.n < 19000 \/ p.ano.n > (getFullYear(t) + 5) * 10
          THEN <<"El año debe estar entre 1900 y el año actual + 5">>
          ELSE IF Falsy(p.calificacion) \/ p.calificacion.n < 10 \/ p.calificacion.n > 100
          THEN <<"La calificación debe estar entre 1 y 10">>
          ELSE IF Falsy(p.descripcion) \/ Len(Trim(p.descripcion.s)) < 10
          THEN <<"La descripción debe tener al menos 10 caracteres">>
          ELSE IF Falsy(p.imagen) \/ ~validarURL(p.imagen)
          THEN <<"Debe proporcionar una URL de imagen válida">>
          ELSE <<>>
    IN  [valido |-> Len(errores) = 0, errores |-> errores]

\* Pelicula.validar at instant t: {valido, errores}.
validar(p, t) ==
    LET errores ==
          (IF Falsy(p.titulo) \/ Len(Trim(p.titulo.s)) < 2
           THEN <<"El título debe tener al menos 2 caracteres">> ELSE <<>>)
          \o (IF Falsy(p.genero)
              THEN <<"Debe seleccionar un género">> ELSE <<>>)
          \o (IF Falsy(p.director) \/ Len(Trim(p.director.s)) < 2
              THEN <<"El director debe tener al menos 2 caracteres">> ELSE <<>>)
          \o (IF Falsy(p.ano) \/ p.ano.n < 19000 \/ p.ano.n > (getFullYear(t) + 5) * 10
              THEN <<"El año debe estar entre 1900 y el año actual + 5">> ELSE <<>>)
          \o (IF Falsy(p.calificacion) \/ p.calificacion.n < 10 \/ p.calificacion.n > 100
              THEN <<"La calificación debe estar entre 1 y 10">> ELSE <<>>)
          \o (IF Falsy(p.descripcion) \/ Len(Trim(p.descripcion.s)) < 10
              THEN <<"La descripción debe tener al menos 10 caracteres">> ELSE <<>>)
          \o (IF Falsy(p.imagen) \/ ~validarURL(p.imagen)
              THEN <<"Debe proporcionar una URL de imagen válida">> ELSE <<>>)
    IN  [valido |-> Len(errores) = 0, errores |-> errores]

\* Pelicula.toJSON: the plain object of the nine fields.
toJSON(p) ==
    [id |-> p.id, titulo |-> p.titulo, genero |-> p.genero,
     director |-> p.director, ano |-> p.ano, calificacion |-> p.calificacion,
     descripcion |-> p.descripcion, imagen |-> p.imagen,
     fechaCreacion |-> p.fechaCreacion]

---------------------------------------------------------------------------
\* JSON text in localStorage.

\* The object JSON.stringify writes for toJSON's result o: a member whose
\* value is undefined is left out, NaN is written as null.
JSONObject(o) ==
    [t |-> "obj",
     m |-> [k \in {x \in DOMAIN o : o[x] # Undef} |->
              IF o[k] = NaN THEN Null ELSE o[k]]]

RECURSIVE JSONArray(_)
JSONArray(ps) ==
    IF ps = <<>> THEN <<>>
    ELSE <<JSONObject(toJSON(Head(ps)))>> \o JSONArray(Tail(ps))

\* JSON.stringify(this.peliculas.map(p => p.toJSON())), as the text stored.
stringify(ps) == [k |-> "json", v |-> [t |-> "arr", a |-> JSONArray(ps)]]

\* What localStorage can hold under the key: nothing, the empty text, a
\* text that is no JSON, or the text of a JSON value.
Absent == [k |-> "absent"]
EmptyText == [k |-> "empty"]
Garbage == [k |-> "garbage"]
JSONText(v) == [k |-> "json", v |-> v]

\* p.name for a parsed JSON value p that is not null.
Prop(p, name) ==
    IF p.t = "obj" /\ name \in DOMAIN p.m THEN p.m[name] ELSE Undef

---------------------------------------------------------------------------
\* class PeliculaManager

peliculasIniciales == <<
    \* Matrix (1999, 8.7)
    [titulo |-> Str("Matrix"),
     genero |-> Str("Ciencia Ficción"),
     director |-> Str("Lana Wachowski, Lilly Wachowski"),
     ano |-> Num(19990),
     calificacion |-> Num(87),
     descripcion |-> Str("Un hacker descubre la impactante verdad sobre su realidad y su papel en la guerra contra sus controladores."),
     imagen |-> Str("https://image.tmdb.org/t/p/w500/f89U3ADr1oiB1s9GkdPOEpXUk5H.jpg")],
    \* El Padrino (1972, 9.2)
    [titulo |-> Str("El Padrino"),
     genero |-> Str("Drama"),
     director |-> Str("Francis Ford Coppola"),
     ano |-> Num(19720),
     calificacion |-> Num(92),
     descripcion |-> Str("El patriarca envejecido de una dinastía del crimen organizado transfiere el control de su imperio clandestino a su hijo reacio."),
     imagen |-> Str("https://image.tmdb.org/t/p/w500/3bhkrj58Vtu7enYsRolD1fZdja1.jpg")],
    \* Inception (2010, 8.8)
    [titulo |-> Str("Inception"),
     genero |-> Str("Ciencia Ficción"),
     director |-> Str("Christopher Nolan"),
     ano |-> Num(20100),
     calificacion |-> Num(88),
     descripcion |-> Str("Un ladrón que roba secretos corporativos mediante el uso de tecnología de sueños compartidos recibe la tarea inversa de plantar una idea."),
     imagen |-> Str("https://image.tmdb.org/t/p/w500/9gk7adHYeDvHkCSEqAvQNLV5Uge.jpg")],
    \* Forrest Gump (1994, 8.8)
    [titulo |-> Str("Forrest Gump"),
     genero |-> Str("Drama"),
     director |-> Str("Robert Zemeckis"),
     ano |-> Num(19940),
     calificacion |-> Num(88),
     descripcion |-> Str("Las presidencias de Kennedy y Johnson, los eventos de Vietnam, Watergate y otros eventos históricos se desarrollan a través de la perspectiva de un hombre de Alabama."),
     imagen |-> Str("https://image.tmdb.org/t/p/w500/arw2vcBveWOVZr6pxd9XTd1TdQa.jpg")],
    \* Pulp Fiction (1994, 8.9)
    [titulo |-> Str("Pulp Fiction"),
     genero |-> Str("Acción"),
     director |-> Str("Quentin Tarantino"),
     ano |-> Num(19940),
     calificacion |-> Num(89),
     descripcion |-> Str("Las vidas de dos asesinos a sueldo, un boxeador, la esposa de un gánster y dos bandidos se entrelazan en cuatro historias de violencia y redención."),
     imagen |-> Str("https://image.tmdb.org/t/p/w500/d5iIlFn5s0ImszYzBPb8JPIfbXD.jpg")],
    \* Interestelar (2014, 8.6)
    [titulo |-> Str("Interestelar"),
     genero |-> Str("Ciencia Ficción"),
     director |-> Str("Christopher Nolan"),
     ano |-> Num(20140),
     calificacion |-> Num(86),
     descripcion |-> Str("Un equipo de exploradores viaja a través de un agujero de gusano en el espacio en un intento de asegurar la supervivencia de la humanidad."),
     imagen |-> Str("https://image.tmdb.org/t/p/w500/gEU2QniE6E77NI6lCU6MxlNBvIx.jpg")],
    \* El Señor de los Anillos: El Retorno del Rey (2003, 8.9)
    [titulo |-> Str("El Señor de los Anillos: El Retorno del Rey"),
     genero |-> Str("Aventura"),
     director |-> Str("Peter Jackson"),
     ano |-> Num(20030),
     calificacion |-> Num(89),
     descripcion |-> Str("Gandalf y Aragorn lideran el Mundo de los Hombres contra el ejército de Sauron para atraer su mirada de Frodo y Sam mientras se acercan al Monte del Destino."),
     imagen |-> Str("https://image.tmdb.org/t/p/w500/rCzpDGLbOoPwLjy3OAm5NUPOTrC.jpg")],
    \* Gladiador (2000, 8.5)
    [titulo |-> Str("Gladiador"),
     genero |-> Str("Acción"),
     director |-> Str("Ridley Scott"),
     ano |-> Num(20000),
     calificacion |-> Num(85),
     descripcion |-> Str("Un ex general romano busca venganza contra el corrupto emperador que asesinó a su familia y lo envió a la esclavitud."),
     imagen |-> Str("https://image.tmdb.org/t/p/w500/ty8TGRuvJLPUmAR1H1nRIsgwvim.jpg")]
>>

\* guardarPeliculas with a catch block that logs and does not rethrow.
guardarPeliculas_silencioso(ps, st, setOk) ==
    [threw |-> FALSE,
     store |-> IF setOk THEN stringify(ps) ELSE st]

\* PeliculaManager.guardarPeliculas: writes the whole list under the key;
\* setOk is whether localStorage.setItem accepts the write.
guardarPeliculas(ps, st, setOk) ==
    [threw |-> ~setOk,
     store |-> IF setOk THEN stringify(ps) ELSE st]

\* obtenerPeliculasIniciales without the call of guardarPeliculas.
obtenerPeliculasIniciales_sinGuardar(st, t, rs, setOk) ==
    [threw |-> FALSE,
     peliculas |-> [i \in 1..NumSeeds |->
                      NewPelicula(peliculasIniciales[i], Null, t, rs[i])],
     store |-> st]

\* PeliculaManager.obtenerPeliculasIniciales at instant t, rs[i] the random
\* part of the i-th record's id.  The model seeds the first NumSeeds of the
\* eight built-in records.
obtenerPeliculasIniciales(st, t, rs, setOk) ==
    LET seeds == [i \in 1..NumSeeds |->
                    NewPelicula(peliculasIniciales[i], Null, t, rs[i])]
        g == guardarPeliculas(seeds, st, setOk)
    IN  [threw |-> g.threw, peliculas |-> seeds, store |-> g.store]

\* Revive without line 351: the record keeps the fechaCreacion its
\* constructor took at load time.
Revive_sinFecha(p, t, r) ==
    NewPelicula([titulo |-> Prop(p, "titulo"),
                 genero |-> Prop(p, "genero"),
                 director |-> Prop(p, "director"),
                 ano |-> Prop(p, "ano"),
                 calificacion |-> Prop(p, "calificacion"),
                 descripcion |-> Prop(p, "descripcion"),
                 imagen |-> Prop(p, "imagen")],
                Prop(p, "id"), t, r)

\* The record cargarPeliculas builds from the parsed element p.
Revive(p, t, r) ==
    [NewPelicula([titulo |-> Prop(p, "titulo"),
                  genero |-> Prop(p, "genero"),
                  director |-> Prop(p, "director"),
                  ano |-> Prop(p, "ano"),
                  calificacion |-> Prop(p, "calificacion"),
                  descripcion |-> Prop(p, "descripcion"),
                  imagen |-> Prop(p, "imagen")],
                 Prop(p, "id"), t, r)
       EXCEPT !.fechaCreacion = Prop(p, "fechaCreacion")]

\* The stored text parses to an array none of whose elements is null: the
\* try block of cargarPeliculas runs to its return.
Loadable(st) ==
    /\ st.k = "json"
    /\ st.v.t = "arr"
    /\ \A i \in 1..Len(st.v.a) : st.v.a[i] # Null

\* cargarPeliculas that also seeds the defaults when the stored array is
\* empty.
cargarPeliculas_vacioSiembra(st, t, rs, setOk1, setOk2) ==
    LET first == obtenerPeliculasIniciales(st, t, rs, setOk1)
        caught == obtenerPeliculasIniciales(st, t, rs, setOk2)
        revived == [i \in 1..Len(st.v.a) |-> Revive(st.v.a[i], t, rs[i])]
    IN  IF st.k \in {"absent", "empty"} \/ (Loadable(st) /\ st.v.a = <<>>)
        THEN (IF first.threw THEN caught ELSE first)
        ELSE IF ~Loadable(st) THEN caught
        ELSE [threw |-> FALSE, peliculas |-> revived, store |-> st]

\* PeliculaManager.cargarPeliculas at instant t.  setOk1: setItem accepts
\* the write made from the try block; setOk2: the one made from the catch
\* block.
cargarPeliculas(st, t, rs, setOk1, setOk2) ==
    LET first == obtenerPeliculasIniciales(st, t, rs, setOk1)
        caught == obtenerPeliculasIniciales(st, t, rs, setOk2)
        revived == [i \in 1..Len(st.v.a) |-> Revive(st.v.a[i], t, rs[i])]
    IN  IF st.k \in {"absent", "empty"}
        THEN (IF first.threw THEN caught ELSE first)
        ELSE IF ~Loadable(st) THEN caught
        ELSE [threw |-> FALSE, peliculas |-> revived, store |-> st]

\* PeliculaManager.obtenerPorId
obtenerPorId(ps, id) ==
    IF \E i \in 1..Len(ps) : ps[i].id = id
    THEN ps[CHOOSE i \in 1..Len(ps) :
              /\ ps[i].id = id
              /\ \A j \in 1..(i - 1) : ps[j].id # id]
    ELSE Null

\* Array.prototype.findIndex(p => p.id === id), 1-based; 0 when none.
findIndex(ps, id) ==
    IF \E i \in 1..Len(ps) : ps[i].id = id
    THEN CHOOSE i \in 1..Len(ps) :
              /\ ps[i].id = id
              /\ \A j \in 1..(i - 1) : ps[j].id # id
    ELSE 0

\* agregar that pushes the record before it looks at the validation.
agregar_validaTarde(ps, st, p, t, setOk) ==
    LET validacion == validar(p, t)
        g == guardarPeliculas(Append(ps, p), st, setOk)
    IN  IF ~validacion.valido
        THEN [peliculas |-> Append(ps, p), store |-> st, out |-> "fail",
              mensaje |-> validacion.errores, pelicula |-> Undef, saved |-> FALSE]
        ELSE [peliculas |-> Append(ps, p), store |-> g.store,
              out |-> IF g.threw THEN "threw" ELSE "ok",
              mensaje |-> IF g.threw THEN <<"No se pudieron guardar las películas">>
                          ELSE <<"Película agregada exitosamente">>,
              pelicula |-> IF g.threw THEN Undef ELSE p, saved |-> TRUE]

\* agregar that reports the first violated rule only.
agregar_primerError(ps, st, p, t, setOk) ==
    LET validacion == validar(p, t)
        g == guardarPeliculas(Append(ps, p), st, setOk)
    IN  IF ~validacion.valido
        THEN [peliculas |-> ps, store |-> st, out |-> "fail",
              mensaje |-> <<Head(validacion.errores)>>, pelicula |-> Undef,
              saved |-> FALSE]
        ELSE [peliculas |-> Append(ps, p), store |-> g.store,
              out |-> IF g.threw THEN "threw" ELSE "ok",
              mensaje |-> IF g.threw THEN <<"No se pudieron guardar las películas">>
                          ELSE <<"Película agregada exitosamente">>,
              pelicula |-> IF g.threw THEN Undef ELSE p, saved |-> TRUE]

\* agregar with unshift in place of push.
agregar_alInicio(ps, st, p, t, setOk) ==
    LET validacion == validar(p, t)
        g == guardarPeliculas(<<p>> \o ps, st, setOk)
    IN  IF ~validacion.valido
        THEN [peliculas |-> ps, store |-> st, out |-> "fail",
              mensaje |-> validacion.errores, pelicula |-> Undef, saved |-> FALSE]
        ELSE [peliculas |-> <<p>> \o ps, store |-> g.store,
              out |-> IF g.threw THEN "threw" ELSE "ok",
              mensaje |-> IF g.threw THEN <<"No se pudieron guardar las películas">>
                          ELSE <<"Película agregada exitosamente">>,
              pelicula |-> IF g.threw THEN Undef ELSE p, saved |-> TRUE]

\* PeliculaManager.agregar(p) at instant t.  out: "ok" (exito: true),
\* "fail" (exito: false) or "threw"; mensaje: the lines of the message;
\* saved: guardarPeliculas was called.
agregar(ps, st, p, t, setOk) ==
    LET validacion == validar(p, t)
        g == guardarPeliculas(Append(ps, p), st, setOk)
    IN  IF ~validacion.valido
        THEN [peliculas |-> ps, store |-> st, out |-> "fail",
              mensaje |-> validacion.errores, pelicula |-> Undef, saved |-> FALSE]
        ELSE [peliculas |-> Append(ps, p), store |-> g.store,
              out |-> IF g.threw THEN "threw" ELSE "ok",
              mensaje |-> IF g.threw THEN <<"No se pudieron guardar las películas">>
                          ELSE <<"Película agregada exitosamente">>,
              pelicula |-> IF g.threw THEN Undef ELSE p, saved |-> TRUE]

\* actualizar taking an id no record carries as a request to add.
actualizar_upsert(ps, st, id, datos, t, r, setOk) ==
    LET index == findIndex(ps, id)
        nueva == NewPelicula(datos, id, t, r)
        np == IF index = 0 THEN Append(ps, nueva)
              ELSE [ps EXCEPT ![index] =
                      [nueva EXCEPT !.fechaCreacion = ps[index].fechaCreacion]]
        g == guardarPeliculas(np, st, setOk)
    IN  IF ~validar(nueva, t).valido
        THEN [peliculas |-> ps, store |-> st, out |-> "fail",
              mensaje |-> validar(nueva, t).errores, pelicula |-> Undef,
              saved |-> FALSE]
        ELSE [peliculas |-> np, store |-> g.store,
              out |-> IF g.threw THEN "threw" ELSE "ok",
              mensaje |-> IF g.threw THEN <<"No se pudieron guardar las películas">>
                          ELSE <<"Película actualizada exitosamente">>,
              pelicula |-> Undef, saved |-> TRUE]

\* actualizar putting the new record in place before validating it.
actualizar_validaTarde(ps, st, id, datos, t, r, setOk) ==
    LET index == findIndex(ps, id)
        nueva == [NewPelicula(datos, id, t, r)
                    EXCEPT !.fechaCreacion = ps[index].fechaCreacion]
        np == [ps EXCEPT ![index] = nueva]
        g == guardarPeliculas(np, st, setOk)
    IN  IF index = 0
        THEN [peliculas |-> ps, store |-> st, out |-> "fail",
              mensaje |-> <<"Película no encontrada">>, pelicula |-> Undef,
              saved |-> FALSE]
        ELSE IF ~validar(nueva, t).valido
        THEN [peliculas |-> np, store |-> st, out |-> "fail",
              mensaje |-> validar(nueva, t).errores, pelicula |-> Undef,
              saved |-> FALSE]
        ELSE [peliculas |-> np, store |-> g.store,
              out |-> IF g.threw THEN "threw" ELSE "ok",
              mensaje |-> IF g.threw THEN <<"No se pudieron guardar las películas">>
                          ELSE <<"Película actualizada exitosamente">>,
              pelicula |-> Undef, saved |-> TRUE]

\* actualizar without the line that restores fechaCreacion.
actualizar_fechaNueva(ps, st, id, datos, t, r, setOk) ==
    LET index == findIndex(ps, id)
        nueva == NewPelicula(datos, id, t, r)
        np == [ps EXCEPT ![index] = nueva]
        g == guardarPeliculas(np, st, setOk)
    IN  IF index = 0
        THEN [peliculas |-> ps, store |-> st, out |-> "fail",
              mensaje |-> <<"Película no encontrada">>, pelicula |-> Undef,
              saved |-> FALSE]
        ELSE IF ~validar(nueva, t).valido
        THEN [peliculas |-> ps, store |-> st, out |-> "fail",
              mensaje |-> validar(nueva, t).errores, pelicula |-> Undef,
              saved |-> FALSE]
        ELSE [peliculas |-> np, store |-> g.store,
              out |-> IF g.threw THEN "threw" ELSE "ok",
              mensaje |-> IF g.threw THEN <<"No se pudieron guardar las películas">>
                          ELSE <<"Película actualizada exitosamente">>,
              pelicula |-> Undef, saved |-> TRUE]

\* actualizar as a removal followed by an append.
actualizar_quitaYAgrega(ps, st, id, datos, t, r, setOk) ==
    LET index == findIndex(ps, id)
        nueva == [NewPelicula(datos, id, t, r)
                    EXCEPT !.fechaCreacion = ps[index].fechaCreacion]
        np == Append(SubSeq(ps, 1, index - 1) \o SubSeq(ps, index + 1, Len(ps)),
                     nueva)
        g == guardarPeliculas(np, st, setOk)
    IN  IF index = 0
        THEN [peliculas |-> ps, store |-> st, out |-> "fail",
              mensaje |-> <<"Película no encontrada">>, pelicula |-> Undef,
              saved |-> FALSE]
        ELSE IF ~validar(nueva, t).valido
        THEN [peliculas |-> ps, store |-> st, out |-> "fail",
              mensaje |-> validar(nueva, t).errores, pelicula |-> Undef,
              saved |-> FALSE]
        ELSE [peliculas |-> np, store |-> g.store,
              out |-> IF g.threw THEN "threw" ELSE "ok",
              mensaje |-> IF g.threw THEN <<"No se pudieron guardar las películas">>
                          ELSE <<"Película actualizada exitosamente">>,
              pelicula |-> Undef, saved |-> TRUE]

\* PeliculaManager.actualizar(id, datos) at instant t.
actualizar(ps, st, id, datos, t, r, setOk) ==
    LET index == findIndex(ps, id)
        peliculaActualizada ==
          [NewPelicula(datos, id, t, r) EXCEPT !.fechaCreacion = ps[index].fechaCreacion]
        validacion == validar(peliculaActualizada, t)
        np == [ps EXCEPT ![index] = peliculaActualizada]
        g == guardarPeliculas(np, st, setOk)
    IN  IF index = 0
        THEN [peliculas |-> ps, store |-> st, out |-> "fail",
              mensaje |-> <<"Película no encontrada">>, pelicula |-> Undef,
              saved |-> FALSE]
        ELSE IF ~validacion.valido
        THEN [peliculas |-> ps, store |-> st, out |-> "fail",
              mensaje |-> validacion.errores, pelicula |-> Undef, saved |-> FALSE]
        ELSE [peliculas |-> np, store |-> g.store,
              out |-> IF g.threw THEN "threw" ELSE "ok",
              mensaje |-> IF g.threw THEN <<"No se pudieron guardar las películas">>
                          ELSE <<"Película actualizada exitosamente">>,
              pelicula |-> Undef, saved |-> TRUE]

\* Array.prototype.splice(index, 1) on ps, 1-based.
splice1(ps, index) ==
    SubSeq(ps, 1, index - 1) \o SubSeq(ps, index + 1, Len(ps))

\* eliminar without the call of guardarPeliculas.
eliminar_sinGuardar(ps, st, id, setOk) ==
    LET index == findIndex(ps, id)
    IN  IF index = 0
        THEN [peliculas |-> ps, store |-> st, out |-> "fail",
              mensaje |-> <<"Película no encontrada">>, pelicula |-> Undef,
              saved |-> FALSE]
        ELSE [peliculas |-> splice1(ps, index), store |-> st, out |-> "ok",
              mensaje |-> <<"Película eliminada exitosamente">>,
              pelicula |-> Undef, saved |-> FALSE]

\* An eliminar that fills the hole with the last record.
eliminar_intercambia(ps, st, id, setOk) ==
    LET index == findIndex(ps, id)
        np == IF index = 0 \/ index = Len(ps)
              THEN splice1(ps, index)
              ELSE SubSeq([ps EXCEPT ![index] = ps[Len(ps)]], 1, Len(ps) - 1)
        g == guardarPeliculas(np, st, setOk)
    IN  IF index = 0
        THEN [peliculas |-> ps, store |-> st, out |-> "fail",
              mensaje |-> <<"Película no encontrada">>, pelicula |-> Undef,
              saved |-> FALSE]
        ELSE [peliculas |-> np, store |-> g.store,
              out |-> IF g.threw THEN "threw" ELSE "ok",
              mensaje |-> IF g.threw THEN <<"No se pudieron guardar las películas">>
                          ELSE <<"Película eliminada exitosamente">>,
              pelicula |-> Undef, saved |-> TRUE]

\* PeliculaManager.eliminar(id).
eliminar(ps, st, id, setOk) ==
    LET index == findIndex(ps, id)
        np == splice1(ps, index)
        g == guardarPeliculas(np, st, setOk)
    IN  IF index = 0
        THEN [peliculas |-> ps, store |-> st, out |-> "fail",
              mensaje |-> <<"Película no encontrada">>, pelicula |-> Undef,
              saved |-> FALSE]
        ELSE [peliculas |-> np, store |-> g.store,
              out |-> IF g.threw THEN "threw" ELSE "ok",
              mensaje |-> IF g.threw THEN <<"No se pudieron guardar las películas">>
                          ELSE <<"Película eliminada exitosamente">>,
              pelicula |-> Undef, saved |-> TRUE]

---------------------------------------------------------------------------
\* The queries of PeliculaManager.  A query either throws or returns an
\* array: [threw, ret].

\* PeliculaManager.obtenerTodas: a new array of the same records.
obtenerTodas(ps) == ps

\* String.prototype.includes
includes(s, t) ==
    \/ t = ""
    \/ \E i \in 1..(Len(s) - Len(t) + 1) : SubSeq(s, i, i + Len(t) - 1) = t

\* v.toLowerCase().includes(tl) for the field value v: "si", "no", or
\* "throw" when v has no toLowerCase (undefined, null, a number).
FieldHas(v, tl) ==
    IF v.t # "str" THEN "throw"
    ELSE IF includes(toLowerCase(v.s), tl) THEN "si" ELSE "no"

\* a || b over the outcomes of FieldHas: b is evaluated only when a is "no".
OrElse(a, b) == IF a # "no" THEN a ELSE b

\* The filter callback of buscar and of buscarYFiltrar on the record p.
Coincide(p, tl) ==
    OrElse(FieldHas(p.titulo, tl),
           OrElse(FieldHas(p.director, tl), FieldHas(p.descripcion, tl)))

\* ps.filter(p => titulo, director or descripcion has tl): the callback
\* runs on every element, in order, and a throw of it ends the call.
FilterByTerm(ps, tl) ==
    IF \E i \in 1..Len(ps) : Coincide(ps[i], tl) = "throw"
    THEN [threw |-> TRUE, ret |-> <<>>]
    ELSE [threw |-> FALSE,
          ret |-> SelectSeq(ps, LAMBDA p : Coincide(p, tl) = "si")]

\* ps.filter(p => p.genero === genero)
FilterByGenero(ps, genero) == SelectSeq(ps, LAMBDA p : p.genero = genero)

\* !termino || termino.trim() === ''
Blank(termino) == Falsy(termino) \/ Trim(termino.s) = ""

\* PeliculaManager.buscar(termino)
buscar(ps, termino) ==
    IF Blank(termino)
    THEN [threw |-> FALSE, ret |-> obtenerTodas(ps)]
    ELSE FilterByTerm(ps, toLowerCase(termino.s))

\* PeliculaManager.filtrarPorGenero(genero)
filtrarPorGenero(ps, genero) ==
    IF Falsy(genero) \/ genero = Str("")
    THEN [threw |-> FALSE, ret |-> obtenerTodas(ps)]
    ELSE [threw |-> FALSE, ret |-> FilterByGenero(ps, genero)]

\* resultado of buscarYFiltrar after the genre step.
PorGenero(ps, genero) ==
    IF ~Falsy(genero) /\ genero # Str("")
    THEN FilterByGenero(obtenerTodas(ps), genero)
    ELSE obtenerTodas(ps)

\* PeliculaManager.buscarYFiltrar(termino, genero)
buscarYFiltrar(ps, termino, genero) ==
    IF ~Falsy(termino) /\ Trim(termino.s) # ""
    THEN FilterByTerm(PorGenero(ps, genero), toLowerCase(termino.s))
    ELSE [threw |-> FALSE, ret |-> PorGenero(ps, genero)]

\* x - y for two values that are numbers or NaN, as the comparators
\* compute it.
Resta(x, y) ==
    IF x.t = "num" /\ y.t = "num" THEN Num(x.n - y.n) ELSE NaN

\* What Array.prototype.sort makes of the comparator's result for the
\* elements of keys ka and kb: negative, zero or positive; NaN counts as
\* zero.  The comparator is b - a when descendente, a - b otherwise.
Compare(ka, kb, descendente) ==
    LET d == IF descendente THEN Resta(kb, ka) ELSE Resta(ka, kb)
    IN  IF d.t # "num" \/ d.n = 0 THEN 0 ELSE IF d.n < 0 THEN -1 ELSE 1

\* The comparator orders the keys consistently: comparing equal is
\* transitive and agrees with the order.  It fails to when some key is NaN
\* and two others differ.
Consistent(keys, descendente) ==
    \A i, j, k \in 1..Len(keys) :
        (Compare(keys[i], keys[j], descendente) = 0
         /\ Compare(keys[j], keys[k], descendente) = 0)
        => Compare(keys[i], keys[k], descendente) = 0

\* The orders of 1..n.
Orders(n) == {f \in [1..n -> 1..n] : \A i, j \in 1..n : i # j => f[i] # f[j]}

\* The number of elements the stable sort puts before element i.
Before(keys, i, descendente) ==
    Cardinality({j \in 1..Len(keys) :
                   \/ Compare(keys[j], keys[i], descendente) < 0
                   \/ Compare(keys[j], keys[i], descendente) = 0 /\ j < i})

\* The order of a stable sort: position k holds the element of index
\* StableOrder[k].
StableOrder(keys, descendente) ==
    [k \in 1..Len(keys) |->
       CHOOSE i \in 1..Len(keys) : Before(keys, i, descendente) = k - 1]

\* [...ps].sort(comparator): the arrays the call can return.  The sort is
\* stable; with a comparator that is not consistent the order is left to
\* the implementation, and any order can come out.
sort(ps, keys, descendente) ==
    IF Consistent(keys, descendente)
    THEN {[k \in 1..Len(ps) |-> ps[StableOrder(keys, descendente)[k]]]}
    ELSE {[k \in 1..Len(ps) |-> ps[f[k]]] : f \in Orders(Len(ps))}

\* new Date(v).getTime() for a stored fechaCreacion: the instant for a text
\* toISOString wrote, NaN for undefined and for any other text.
DateValue(v) ==
    IF \E t \in 0..MaxClock : v = toISOString(t)
    THEN Num(CHOOSE t \in 0..MaxClock : v = toISOString(t))
    ELSE NaN

\* The default of obtenerRecientes' cantidad.
CantidadPorDefecto == 5

\* Array.prototype.slice(0, n) for n >= 0.
slice0(s, n) == SubSeq(s, 1, IF n < Len(s) THEN n ELSE Len(s))

\* PeliculaManager.obtenerRecientes(cantidad): the arrays it can return.
obtenerRecientes(ps, cantidad) ==
    {slice0(s, cantidad) :
       s \in sort(ps, [i \in 1..Len(ps) |-> DateValue(ps[i].fechaCreacion)], TRUE)}

\* PeliculaManager.ordenarPorCalificacion(descendente): the arrays it can
\* return.
ordenarPorCalificacion(ps, descendente) ==
    sort(ps, [i \in 1..Len(ps) |-> ps[i].calificacion], descendente)

\* PeliculaManager.ordenarPorAno(descendente): the arrays it can return.
ordenarPorAno(ps, descendente) ==
    sort(ps, [i \in 1..Len(ps) |-> ps[i].ano], descendente)

---------------------------------------------------------------------------
\* Inputs: what callers pass.  A draft is the seven form values, as text.

DraftA ==
    [titulo |-> Str("Up"),
     genero |-> Str("Drama"),
     director |-> Str("Al"),
     ano |-> Str("1999"),
     calificacion |-> Str("8.7"),
     descripcion |-> Str("Una casa vuela"),
     imagen |-> Str("https://x.y/a")]

DraftB ==
    [titulo |-> Str("ET"),
     genero |-> Str("Aventura"),
     director |-> Str("SS"),
     ano |-> Str("1982"),
     calificacion |-> Str("7"),
     descripcion |-> Str("Un niño y ET"),
     imagen |-> Str("http://e.t")]

\* Breaks four rules: title, genre, year and image.
DraftBad ==
    [titulo |-> Str(" a "),
     genero |-> Str(""),
     director |-> Str("Al"),
     ano |-> Str("1899"),
     calificacion |-> Str("8.7"),
     descripcion |-> Str("Una casa vuela"),
     imagen |-> Str("nourl")]

\* What agregar is given: new Pelicula(d..., id), the id left out (null)
\* or passed by the caller.
AddInputs ==
    {[d |-> DraftA, id |-> Null],
     [d |-> DraftB, id |-> Str("a")],
     [d |-> DraftBad, id |-> Null]}

\* What actualizar is given as datos.
UpdateInputs == {DraftB, DraftBad}

\* An id a caller passed to new Pelicula.
IsCallerId(id) == \E x \in AddInputs : x.id = id

\* An id no record carries.
IdMissing == Str("z")

Ids(ps) == {ps[i].id : i \in 1..Len(ps)}

\* What the key may hold when the page first loads.
InitialStores ==
    {Absent, EmptyText, Garbage,
     JSONText(Null),
     JSONText([t |-> "arr", a |-> <<>>]),
     JSONText([t |-> "arr", a |-> <<Null>>]),
     JSONText([t |-> "arr", a |-> <<[t |-> "obj", m |-> [titulo |-> Str("Up")]]>>]),
     stringify(<<NewPelicula(DraftA, Str("a"), 0, "r9")>>)}

NoCall ==
    [op |-> "none", out |-> "none", rejected |-> FALSE, mensaje |-> <<>>,
     arg |-> Undef, id |-> Undef, pelicula |-> Undef]

---------------------------------------------------------------------------
Init ==
    /\ store \in InitialStores
    /\ peliculas = <<>>
    /\ mgr = "none"
    /\ now = 0
    /\ nops = 0
    /\ res = NoCall
    /\ prev = [op |-> "none", out |-> "none"]
    /\ usuarios = Absent
    /\ sesion = Absent

\* The random parts the call number n draws.
Draws(n) == [i \in 1..(NumSeeds + MaxOps + 1) |-> RandomPart(n, i)]

\* new PeliculaManager(): on page load, and again on every reload.
Construct ==
    /\ nops < MaxOps
    /\ \E setOk1 \in BOOLEAN, setOk2 \in BOOLEAN :
         LET l == cargarPeliculas(store, now, Draws(nops), setOk1, setOk2)
         IN  /\ mgr' = IF l.threw THEN "failed" ELSE "ready"
             /\ peliculas' = IF l.threw THEN <<>> ELSE l.peliculas
             /\ store' = l.store
             /\ res' = [NoCall EXCEPT !.op = "constructor",
                                      !.out = IF l.threw THEN "threw" ELSE "ok",
                                      !.rejected = l.threw]
    /\ nops' = nops + 1
    /\ prev' = [op |-> res.op, out |-> res.out]
    /\ UNCHANGED <<now, usuarios, sesion>>

\* manager.agregar(new Pelicula(...)), as handleGuardarPelicula calls it.
Agregar ==
    /\ mgr = "ready"
    /\ nops < MaxOps
    /\ \E x \in AddInputs, setOk \in BOOLEAN :
         LET p == NewPelicula(x.d, x.id, now, Draws(nops)[1])
             a == agregar(peliculas, store, p, now, setOk)
         IN  /\ peliculas' = a.peliculas
             /\ store' = a.store
             /\ res' = [op |-> "agregar", out |-> a.out,
                        rejected |-> a.saved /\ ~setOk,
                        mensaje |-> a.mensaje, arg |-> p, id |-> p.id,
                        pelicula |-> a.pelicula]
    /\ nops' = nops + 1
    /\ prev' = [op |-> res.op, out |-> res.out]
    /\ UNCHANGED <<mgr, now, usuarios, sesion>>

\* manager.actualizar(id, datos)
Actualizar ==
    /\ mgr = "ready"
    /\ nops < MaxOps
    /\ \E id \in Ids(peliculas) \cup {IdMissing}, d \in UpdateInputs,
          setOk \in BOOLEAN :
         LET a == actualizar(peliculas, store, id, d, now, Draws(nops)[1], setOk)
         IN  /\ peliculas' = a.peliculas
             /\ store' = a.store
             /\ res' = [op |-> "actualizar", out |-> a.out,
                        rejected |-> a.saved /\ ~setOk,
                        mensaje |-> a.mensaje, arg |-> d, id |-> id,
                        pelicula |-> a.pelicula]
    /\ nops' = nops + 1
    /\ prev' = [op |-> res.op, out |-> res.out]
    /\ UNCHANGED <<mgr, now, usuarios, sesion>>

\* manager.eliminar(id)
Eliminar ==
    /\ mgr = "ready"
    /\ nops < MaxOps
    /\ \E id \in Ids(peliculas) \cup {IdMissing}, setOk \in BOOLEAN :
         LET a == eliminar(peliculas, store, id, setOk)
         IN  /\ peliculas' = a.peliculas
             /\ store' = a.store
             /\ res' = [op |-> "eliminar", out |-> a.out,
                        rejected |-> a.saved /\ ~setOk,
                        mensaje |-> a.mensaje, arg |-> Undef, id |-> id,
                        pelicula |-> a.pelicula]
    /\ nops' = nops + 1
    /\ prev' = [op |-> res.op, out |-> res.out]
    /\ UNCHANGED <<mgr, now, usuarios, sesion>>

\* Time passes.
Tick ==
    /\ now < MaxClock
    /\ now' = now + 1
    /\ UNCHANGED <<store, peliculas, mgr, nops, res, prev, usuarios, sesion>>

Next == Construct \/ Agregar \/ Actualizar \/ Eliminar \/ Tick

Spec == Init /\ [][Next]_vars

---------------------------------------------------------------------------
\* The queries, each called once on a manager that earlier calls left in
\* some state, and what the caller can then do with the value returned.

\* What buscar, filtrarPorGenero, obtenerRecientes and the sorts are given.
Terminos == {Str(""), Str("  "), Str("UP"), Str("al")}
Generos == {Str(""), Str("Drama"), Str("Aventura")}
Cantidades == {1, 2, CantidadPorDefecto}

\* What the key may hold when a manager that is then queried loads it: the
\* initial stores, and a complete record followed by one that has only a
\* titulo.
QueryStores ==
    InitialStores \cup
    {JSONText([t |-> "arr",
               a |-> <<JSONObject(toJSON(NewPelicula(DraftA, Str("a"), 0, "r9"))),
                       [t |-> "obj", m |-> [titulo |-> Str("Up")]]>>])}

\* The manager after agregar of the input x at instant t, from the state s.
AfterAdd(s, x, t) ==
    [peliculas |->
       agregar(s.peliculas, s.store,
               NewPelicula(x.d, x.id, t, Draws(s.nops)[1]), t, TRUE).peliculas,
     store |->
       agregar(s.peliculas, s.store,
               NewPelicula(x.d, x.id, t, Draws(s.nops)[1]), t, TRUE).store,
     now |-> t,
     nops |-> s.nops + 1]

\* The states of a manager constructed at instant 0 over one of the stores
\* of QueryStores and then given up to k calls of agregar, each at the instant of
\* the one before or later, all written to the store, for as long as the
\* list holds fewer than MaxOps records.
RECURSIVE Alcanzables(_)
Alcanzables(k) ==
    IF k = 0
    THEN {[peliculas |-> cargarPeliculas(st, 0, Draws(0), TRUE, TRUE).peliculas,
           store |-> cargarPeliculas(st, 0, Draws(0), TRUE, TRUE).store,
           now |-> 0,
           nops |-> 1] : st \in QueryStores}
    ELSE Alcanzables(k - 1) \cup
         UNION {{AfterAdd(s, x, t) :
                   x \in {y \in AddInputs :
                            validar(NewPelicula(y.d, y.id, 0, ""), 0).valido},
                   t \in s.now..MaxClock} :
                s \in {u \in Alcanzables(k - 1) :
                         u.nops = k /\ Len(u.peliculas) < MaxOps}}

\* One call is left to make.
InitQ ==
    \E s \in {u \in Alcanzables(MaxOps) :
                \A i \in 1..Len(u.peliculas) :
                   DateValue(u.peliculas[i].fechaCreacion) = NaN
                   \/ DateValue(u.peliculas[i].fechaCreacion).n <= u.now} :
       /\ store = s.store
       /\ peliculas = s.peliculas
       /\ mgr = "ready"
       /\ now = s.now
       /\ nops = MaxOps - 1
       /\ res = NoCall
       /\ prev = [op |-> "none", out |-> "none"]
       /\ usuarios = Absent
       /\ sesion = Absent

\* What a query call was given and gave back.  refs tells, for each element
\* of the array returned, the index in this.peliculas of the object it is.
QueryRes(op, arg, threw, ret, refs) ==
    [op |-> op, out |-> IF threw THEN "threw" ELSE "ok", rejected |-> FALSE,
     mensaje |-> <<>>, arg |-> arg, id |-> Undef, pelicula |-> Undef,
     ret |-> ret, refs |-> refs]

\* The frame of a query: the call reads this.peliculas and writes nothing.
QueryFrame ==
    /\ nops' = nops + 1
    /\ prev' = [op |-> res.op, out |-> res.out]
    /\ UNCHANGED <<store, peliculas, mgr, now, usuarios, sesion>>

\* manager.obtenerTodas()
ObtenerTodas ==
    /\ mgr = "ready"
    /\ nops < MaxOps
    /\ res' = QueryRes("obtenerTodas", <<>>, FALSE, obtenerTodas(peliculas),
                       [i \in 1..Len(peliculas) |-> i])
    /\ QueryFrame

\* manager.obtenerPorId(id): pelicula is the record returned, or null.
ObtenerPorId ==
    /\ mgr = "ready"
    /\ nops < MaxOps
    /\ \E id \in Ids(peliculas) \cup {IdMissing} :
         res' = [QueryRes("obtenerPorId", <<id>>, FALSE, <<>>,
                          IF findIndex(peliculas, id) = 0 THEN <<>>
                          ELSE <<findIndex(peliculas, id)>>)
                   EXCEPT !.id = id, !.pelicula = obtenerPorId(peliculas, id)]
    /\ QueryFrame

\* manager.buscar(termino)
Buscar ==
    /\ mgr = "ready"
    /\ nops < MaxOps
    /\ \E termino \in Terminos :
         res' = QueryRes("buscar", <<termino>>, buscar(peliculas, termino).threw,
                         buscar(peliculas, termino).ret, <<>>)
    /\ QueryFrame

\* manager.filtrarPorGenero(genero)
FiltrarPorGenero ==
    /\ mgr = "ready"
    /\ nops < MaxOps
    /\ \E genero \in Generos :
         res' = QueryRes("filtrarPorGenero", <<genero>>, FALSE,
                         filtrarPorGenero(peliculas, genero).ret, <<>>)
    /\ QueryFrame

\* manager.buscarYFiltrar(termino, genero)
BuscarYFiltrar ==
    /\ mgr = "ready"
    /\ nops < MaxOps
    /\ \E termino \in Terminos, genero \in Generos :
         res' = QueryRes("buscarYFiltrar", <<termino, genero>>,
                         buscarYFiltrar(peliculas, termino, genero).threw,
                         buscarYFiltrar(peliculas, termino, genero).ret, <<>>)
    /\ QueryFrame

\* manager.obtenerRecientes(cantidad)
ObtenerRecientes ==
    /\ mgr = "ready"
    /\ nops < MaxOps
    /\ \E cantidad \in Cantidades :
         \E ret \in obtenerRecientes(peliculas, cantidad) :
            res' = QueryRes("obtenerRecientes", <<cantidad>>, FALSE, ret, <<>>)
    /\ QueryFrame

\* manager.ordenarPorCalificacion(descendente)
OrdenarPorCalificacion ==
    /\ mgr = "ready"
    /\ nops < MaxOps
    /\ \E descendente \in BOOLEAN :
         \E ret \in ordenarPorCalificacion(peliculas, descendente) :
            res' = QueryRes("ordenarPorCalificacion", <<descendente>>, FALSE,
                            ret, <<>>)
    /\ QueryFrame

\* ordenarPorAno calling sort on this.peliculas itself.
OrdenarPorAno_enSitio ==
    /\ mgr = "ready"
    /\ nops < MaxOps
    /\ \E descendente \in BOOLEAN :
         \E ret \in ordenarPorAno(peliculas, descendente) :
            /\ res' = QueryRes("ordenarPorAno", <<descendente>>, FALSE, ret, <<>>)
            /\ peliculas' = ret
    /\ nops' = nops + 1
    /\ prev' = [op |-> res.op, out |-> res.out]
    /\ UNCHANGED <<store, mgr, now, usuarios, sesion>>

\* manager.ordenarPorAno(descendente)
OrdenarPorAno ==
    /\ mgr = "ready"
    /\ nops < MaxOps
    /\ \E descendente \in BOOLEAN :
         \E ret \in ordenarPorAno(peliculas, descendente) :
            res' = QueryRes("ordenarPorAno", <<descendente>>, FALSE, ret, <<>>)
    /\ QueryFrame

\* The caller assigns to a field of a record it was returned by
\* obtenerTodas or obtenerPorId: [...this.peliculas] is a new array of the
\* same objects and find returns the object itself, so the assignment is
\* to the manager's record.
MutarDevuelto ==
    /\ res.op \in {"obtenerTodas", "obtenerPorId"}
    /\ \E k \in 1..Len(res.refs) :
         peliculas' = [peliculas EXCEPT ![res.refs[k]].titulo = Str("x")]
    /\ res' = [res EXCEPT !.op = "caller"]
    /\ prev' = [op |-> res.op, out |-> res.out]
    /\ UNCHANGED <<store, mgr, now, nops, usuarios, sesion>>

Query ==
    \/ ObtenerTodas
    \/ ObtenerPorId
    \/ Buscar
    \/ FiltrarPorGenero
    \/ BuscarYFiltrar
    \/ ObtenerRecientes
    \/ OrdenarPorCalificacion
    \/ OrdenarPorAno

NextQ == Query \/ MutarDevuelto

SpecQ == InitQ /\ [][NextQ]_vars

---------------------------------------------------------------------------
\* A record on its own: constructed from the fields of a form, then
\* validated, possibly at a later instant.

\* The fields new Pelicula is given: texts of the form, the title also left
\* out.  The years lie on both sides of 1900 and of the current year plus
\* five, the ratings on both sides of 1 and of 10.
FormInputs ==
    [titulo : {Undef, Str(" a "), Str("ab")},
     genero : {Str(""), Str("Drama")},
     director : {Str("a  "), Str("Al")},
     ano : {Str("x"), Str("1899"), Str("1900"), Str("2031"), Str("2032")},
     calificacion : {Str("0.9"), Str("1"), Str("10"), Str("10.1")},
     descripcion : {Str(" 123456789 "), Str("Una casa vuela")},
     imagen : {Str("nourl"), Str("https://x.y/a")}]

InitV ==
    /\ store = Absent
    /\ peliculas = <<>>
    /\ mgr = "none"
    /\ now = 0
    /\ nops = 0
    /\ res = NoCall
    /\ prev = [op |-> "none", out |-> "none"]
    /\ usuarios = Absent
    /\ sesion = Absent

\* const p = new Pelicula(titulo, ..., imagen)
Pelicula ==
    /\ res.op = "none"
    /\ \E d \in FormInputs :
         res' = [NoCall EXCEPT !.op = "Pelicula",
                               !.out = "ok",
                               !.pelicula = NewPelicula(d, Null, now, RandomPart(0, 1))]
    /\ UNCHANGED <<store, peliculas, mgr, now, nops, prev, usuarios, sesion>>

\* p.validar(), called at the instant now.
Validar ==
    /\ res.op = "Pelicula"
    /\ res' = [op |-> "validar", out |-> "ok", rejected |-> FALSE,
               mensaje |-> <<>>, arg |-> <<>>, id |-> Undef,
               pelicula |-> res.pelicula, instante |-> now,
               ret |-> validar(res.pelicula, now)]
    /\ UNCHANGED <<store, peliculas, mgr, now, nops, prev, usuarios, sesion>>

NextV == Pelicula \/ Validar \/ Tick

SpecV == InitV /\ [][NextV]_vars

---------------------------------------------------------------------------
\* class AuthManager

\* The three users inicializarUsuariosPorDefecto writes, at instant t.
usuariosPrueba(t) == <<
    [id |-> Str("user_1"), nombre |-> Str("Administrador"),
     email |-> Str("admin@cineflix.com"), usuario |-> Str("admin"),
     password |-> Str("admin123"), fechaRegistro |-> toISOString(t)],
    [id |-> Str("user_2"), nombre |-> Str("Usuario Demo"),
     email |-> Str("usuario@cineflix.com"), usuario |-> Str("usuario"),
     password |-> Str("1234"), fechaRegistro |-> toISOString(t)],
    [id |-> Str("user_3"), nombre |-> Str("Demo User"),
     email |-> Str("demo@cineflix.com"), usuario |-> Str("demo"),
     password |-> Str("demo"), fechaRegistro |-> toISOString(t)] >>

\* JSON.stringify of an array of plain objects whose members are texts.
stringifyObjects(os) ==
    JSONText([t |-> "arr", a |-> [i \in 1..Len(os) |-> JSONObject(os[i])]])

\* AuthManager.obtenerUsuarios: the array parsed from the stored text, the
\* empty array when there is no text or JSON.parse throws.
obtenerUsuarios(st) ==
    IF st.k = "json" /\ st.v.t = "arr"
    THEN [i \in 1..Len(st.v.a) |-> st.v.a[i].m]
    ELSE <<>>

\* AuthManager.guardarUsuarios: [threw, usuarios].
guardarUsuarios(us, st, setOk) ==
    [threw |-> ~setOk,
     usuarios |-> IF setOk THEN stringifyObjects(us) ELSE st]

\* AuthManager.inicializarUsuariosPorDefecto at instant t: [threw, usuarios].
inicializarUsuariosPorDefecto(st, t, setOk) ==
    IF Len(obtenerUsuarios(st)) = 0
    THEN [threw |-> ~setOk,
          usuarios |-> IF setOk THEN stringifyObjects(usuariosPrueba(t)) ELSE st]
    ELSE [threw |-> FALSE, usuarios |-> st]

\* Array.prototype.find(u => u.usuario === usuario && u.password === password),
\* as the index of the user found; 0 when none.
findUsuario(us, usuario, password) ==
    IF \E i \in 1..Len(us) : us[i].usuario = usuario /\ us[i].password = password
    THEN CHOOSE i \in 1..Len(us) :
              /\ us[i].usuario = usuario /\ us[i].password = password
              /\ \A j \in 1..(i - 1) :
                   ~(us[j].usuario = usuario /\ us[j].password = password)
    ELSE 0

\* A login that ends the session when it fails.
login_fallidoCierra(st, ses, usuario, password, t, setOk) ==
    LET us == obtenerUsuarios(st)
        index == findUsuario(us, usuario, password)
        nueva == [id |-> us[index].id, nombre |-> us[index].nombre,
                  usuario |-> us[index].usuario, email |-> us[index].email,
                  fechaLogin |-> toISOString(t)]
    IN  IF Falsy(usuario) \/ Falsy(password)
        THEN [out |-> "fail", mensaje |-> <<"Usuario y contraseña son requeridos">>,
              sesion |-> Absent]
        ELSE IF index > 0
        THEN (IF setOk
              THEN [out |-> "ok", mensaje |-> <<"¡Bienvenido!">>,
                    sesion |-> JSONText(JSONObject(nueva))]
              ELSE [out |-> "threw", mensaje |-> <<>>, sesion |-> ses])
        ELSE [out |-> "fail", mensaje |-> <<"Usuario o contraseña incorrectos">>,
              sesion |-> Absent]

\* AuthManager.login(usuario, password) at instant t: [out, mensaje, sesion].
login(st, ses, usuario, password, t, setOk) ==
    LET us == obtenerUsuarios(st)
        index == findUsuario(us, usuario, password)
        nueva == [id |-> us[index].id, nombre |-> us[index].nombre,
                  usuario |-> us[index].usuario, email |-> us[index].email,
                  fechaLogin |-> toISOString(t)]
    IN  IF Falsy(usuario) \/ Falsy(password)
        THEN [out |-> "fail", mensaje |-> <<"Usuario y contraseña son requeridos">>,
              sesion |-> ses]
        ELSE IF index > 0
        THEN (IF setOk
              THEN [out |-> "ok", mensaje |-> <<"¡Bienvenido!">>,
                    sesion |-> JSONText(JSONObject(nueva))]
              ELSE [out |-> "threw", mensaje |-> <<>>, sesion |-> ses])
        ELSE [out |-> "fail", mensaje |-> <<"Usuario o contraseña incorrectos">>,
              sesion |-> ses]

\* The first place of "@" in text s; 0 when there is none.
RECURSIVE IndexOfAt(_, _)
IndexOfAt(s, i) ==
    IF i > Len(s) THEN 0
    ELSE IF Char(s, i) = "@" THEN i
    ELSE IndexOfAt(s, i + 1)

\* AuthManager.validarEmail: /^[^\s@]+@[^\s@]+\.[^\s@]+$/.test(email).
validarEmail(v) ==
    /\ v.t = "str"
    /\ Chars(v.s) \cap WhiteSpace = {}
    /\ LET a == IndexOfAt(v.s, 1)
           dominio == SubSeq(v.s, a + 1, Len(v.s))
       IN  /\ a > 1
           /\ "@" \notin Chars(dominio)
           /\ \E i \in 2..(Len(dominio) - 1) : Char(dominio, i) = "."

\* AuthManager.registrar(datos) at instant t: [out, mensaje, usuarios].
registrar(st, datos, t, setOk) ==
    LET us == obtenerUsuarios(st)
        nuevoUsuario == [id |-> Str("user_" \o ToString(t)),
                         nombre |-> Str(Trim(datos.nombre.s)),
                         email |-> Str(toLowerCase(Trim(datos.email.s))),
                         usuario |-> Str(Trim(datos.usuario.s)),
                         password |-> datos.password,
                         fechaRegistro |-> toISOString(t)]
        g == guardarUsuarios(Append(us, nuevoUsuario), st, setOk)
        fail(m) == [out |-> "fail", mensaje |-> <<m>>, usuarios |-> st]
    IN  IF Falsy(datos.nombre) \/ Len(Trim(datos.nombre.s)) < 3
        THEN fail("El nombre debe tener al menos 3 caracteres")
        ELSE IF Falsy(datos.email) \/ ~validarEmail(datos.email)
        THEN fail("Email inválido")
        ELSE IF Falsy(datos.usuario) \/ Len(Trim(datos.usuario.s)) < 4
        THEN fail("El usuario debe tener al menos 4 caracteres")
        ELSE IF Falsy(datos.password) \/ Len(datos.password.s) < 6
        THEN fail("La contraseña debe tener al menos 6 caracteres")
        ELSE IF datos.password # datos.confirmPassword
        THEN fail("Las contraseñas no coinciden")
        ELSE IF \E i \in 1..Len(us) : us[i].usuario = datos.usuario
        THEN fail("El usuario ya existe")
        ELSE IF \E i \in 1..Len(us) : us[i].email = datos.email
        THEN fail("El email ya está registrado")
        ELSE IF g.threw
        THEN [out |-> "threw", mensaje |-> <<"No se pudieron guardar los usuarios">>,
              usuarios |-> st]
        ELSE [out |-> "ok",
              mensaje |-> <<"Cuenta creada exitosamente. Ya puedes iniciar sesión">>,
              usuarios |-> g.usuarios]

\* AuthManager.logout: localStorage.removeItem of the session key.
logout(ses) == Absent

\* AuthManager.obtenerSesionActiva: the value parsed from the stored text,
\* null when there is no text or JSON.parse throws.
obtenerSesionActiva(ses) == IF ses.k = "json" THEN ses.v ELSE Null

\* AuthManager.estaAutenticado
estaAutenticado(ses) == obtenerSesionActiva(ses) # Null

\* What the login form sends.
LoginInputs ==
    [usuario : {Str(""), Str("admin"), Str("demo"), Str("anita")},
     password : {Str(""), Str("admin123"), Str("demo"), Str("secret1")}]

\* What the registration form sends: a new user, and the same with one
\* field changed.
DatosAna ==
    [nombre |-> Str("Ana"), email |-> Str("ana@x.io"), usuario |-> Str("anita"),
     password |-> Str("secret1"), confirmPassword |-> Str("secret1")]

RegistroInputs ==
    {DatosAna,
     [DatosAna EXCEPT !.nombre = Str(" An ")],
     [DatosAna EXCEPT !.email = Str("ana@x")],
     [DatosAna EXCEPT !.email = Str("demo@cineflix.com")],
     [DatosAna EXCEPT !.email = Str("Demo@Cineflix.com")],
     [DatosAna EXCEPT !.usuario = Str("ana ")],
     [DatosAna EXCEPT !.usuario = Str("demo")],
     [DatosAna EXCEPT !.usuario = Str(" demo ")],
     [DatosAna EXCEPT !.password = Str("demo"), !.confirmPassword = Str("demo")],
     [DatosAna EXCEPT !.confirmPassword = Str("secret2")]}

\* The state after new AuthManager() on a browser that holds no users, or
\* a text that cannot be read, and no session.
InitA ==
    /\ store = Absent
    /\ peliculas = <<>>
    /\ mgr = "none"
    /\ now = 0
    /\ nops = 0
    /\ res = NoCall
    /\ prev = [op |-> "none", out |-> "none"]
    /\ \E st \in {Absent, EmptyText, Garbage} :
         usuarios = inicializarUsuariosPorDefecto(st, 0, TRUE).usuarios
    /\ sesion = Absent

\* What a call of AuthManager was given and gave back.
AuthRes(op, arg, out, mensaje) ==
    [NoCall EXCEPT !.op = op, !.arg = arg, !.out = out, !.mensaje = mensaje]

\* The frame of a call of AuthManager.
AuthFrame ==
    /\ nops' = nops + 1
    /\ prev' = [op |-> res.op, out |-> res.out]
    /\ UNCHANGED <<store, peliculas, mgr, now>>

\* new AuthManager(), on the load of another page.
ConstructAuth ==
    /\ nops < MaxOps
    /\ \E setOk \in BOOLEAN :
         LET i == inicializarUsuariosPorDefecto(usuarios, now, setOk)
         IN  /\ usuarios' = i.usuarios
             /\ res' = AuthRes("AuthManager", <<>>,
                               IF i.threw THEN "threw" ELSE "ok", <<>>)
    /\ UNCHANGED sesion
    /\ AuthFrame

\* authManager.login(usuario, password)
Login ==
    /\ nops < MaxOps
    /\ \E x \in LoginInputs, setOk \in BOOLEAN :
         LET l == login(usuarios, sesion, x.usuario, x.password, now, setOk)
         IN  /\ sesion' = l.sesion
             /\ res' = AuthRes("login", <<x.usuario, x.password>>, l.out, l.mensaje)
    /\ UNCHANGED usuarios
    /\ AuthFrame

\* authManager.registrar(datos)
Registrar ==
    /\ nops < MaxOps
    /\ \E datos \in RegistroInputs, setOk \in BOOLEAN :
         LET r == registrar(usuarios, datos, now, setOk)
         IN  /\ usuarios' = r.usuarios
             /\ res' = AuthRes("registrar", <<datos>>, r.out, r.mensaje)
    /\ UNCHANGED sesion
    /\ AuthFrame

\* authManager.logout()
Logout ==
    /\ nops < MaxOps
    /\ sesion' = logout(sesion)
    /\ res' = AuthRes("logout", <<>>, "ok", <<>>)
    /\ UNCHANGED usuarios
    /\ AuthFrame

\* authManager.estaAutenticado()
EstaAutenticado ==
    /\ nops < MaxOps
    /\ res' = QueryRes("estaAutenticado", <<>>, FALSE, estaAutenticado(sesion), <<>>)
    /\ UNCHANGED <<usuarios, sesion>>
    /\ AuthFrame

NextA == ConstructAuth \/ Login \/ Registrar \/ Logout \/ EstaAutenticado \/ Tick

SpecA == InitA /\ [][NextA]_vars

---------------------------------------------------------------------------
\* Properties.

Mutators == {"agregar", "actualizar", "eliminar"}

\* The step is a call of the named manager operation.
Called(op) == nops' # nops /\ res'.op = op
CalledMutator == nops' # nops /\ res'.op \in Mutators

\* ps is the default set, built at instant t.
DefaultSeeded(ps, t) ==
    /\ Len(ps) = NumSeeds
    /\ \E n \in 0..MaxOps :
         \A i \in 1..NumSeeds :
            ps[i] = NewPelicula(peliculasIniciales[i], Null, t, Draws(n)[i])

\* The list changed the way the call asks for.
Mutated ==
    CASE res'.op = "agregar" -> peliculas' = Append(peliculas, res'.arg)
      [] res'.op = "eliminar" ->
           /\ Len(peliculas') = Len(peliculas) - 1
           /\ res'.id \in Ids(peliculas)
      [] res'.op = "actualizar" ->
           /\ Len(peliculas') = Len(peliculas)
           /\ \E i \in 1..Len(peliculas) :
                /\ peliculas[i].id = res'.id
                /\ peliculas'[i].id = res'.id
                /\ peliculas'[i].titulo = res'.arg.titulo

\* C1: no two records of peliculas share an id.  Stated for the ids a
\* caller passes to new Pelicula, so that a violation does not rest on
\* Math.random repeating itself.
C1_IdsUnique ==
    \A i, j \in 1..Len(peliculas) :
        (i # j /\ IsCallerId(peliculas[i].id)) => peliculas[i].id # peliculas[j].id

\* C2: every record of peliculas passes validar, also the records that
\* cargarPeliculas built from the stored value.
C2_OnlyValidRecords ==
    mgr = "ready" => \A i \in 1..Len(peliculas) : validar(peliculas[i], now).valido

\* C3, as claimed: agregar, actualizar and eliminar either succeed, with
\* the store written, or leave peliculas as it was.
C3_AllOrNothing ==
    [][CalledMutator =>
         \/ res'.out = "ok" /\ store' = stringify(peliculas')
         \/ peliculas' = peliculas]_vars

\* C3, amended: a call of agregar, actualizar or eliminar ends in one of
\* three ways: it succeeds, peliculas changed and the store holding the new
\* list; it fails before changing anything, peliculas and the store as they
\* were; or the store rejects the write and the call throws, the store as it
\* was and the change left in peliculas.
C3_Outcomes ==
    [][CalledMutator =>
         \/ /\ res'.out = "ok"
            /\ ~res'.rejected
            /\ Mutated
            /\ store' = stringify(peliculas')
         \/ /\ res'.out = "fail"
            /\ peliculas' = peliculas
            /\ store' = store
         \/ /\ res'.out = "threw"
            /\ res'.rejected
            /\ Mutated
            /\ store' = store]_vars

\* A rejected write left the new record in peliculas and not in the store.
C3_Witness ==
    /\ res.op = "agregar"
    /\ res.out = "threw"
    /\ peliculas # <<>>
    /\ peliculas[Len(peliculas)] = res.arg
    /\ store # stringify(peliculas)

\* C4, as claimed: after the constructor and after every successful call
\* the store holds the serialisation of peliculas.
C4_StoreMirrorsItems ==
    res.out = "ok" => store = stringify(peliculas)

\* C4, amended: after a construction that seeds the defaults and after
\* every successful agregar, actualizar or eliminar the store holds the
\* serialisation of peliculas, in order; a construction that loads the
\* stored value writes nothing and leaves the store as found.
C4_MirrorAfterWrite ==
    [][/\ (CalledMutator /\ res'.out = "ok") => store' = stringify(peliculas')
       /\ (Called("constructor") /\ res'.out = "ok" /\ ~Loadable(store)) =>
             store' = stringify(peliculas')
       /\ (Called("constructor") /\ Loadable(store)) => store' = store]_vars

\* A successful eliminar left records behind, and the store holds them.
C4_Witness ==
    /\ res.op = "eliminar"
    /\ res.out = "ok"
    /\ Len(peliculas) >= 1
    /\ store = stringify(peliculas)

\* C5: when the store rejects the write made by agregar, actualizar or
\* eliminar, the call throws: it does not return a result.
C5_RejectedWriteThrows ==
    (res.op \in Mutators /\ res.rejected) => res.out = "threw"

\* The store rejected the write of an actualizar.
C5_Witness ==
    res.op = "actualizar" /\ res.rejected

\* C6: the constructor never throws, and when the stored value is absent
\* or cannot be loaded it ends with the default set in peliculas.
C6_ConstructionNeverFails ==
    [][Called("constructor") =>
         /\ mgr' = "ready"
         /\ (~Loadable(store) => DefaultSeeded(peliculas', now))]_vars

\* The last record was deleted and the empty list written; the next call
\* is the constructor, on reload.
ReloadOfEmptied ==
    /\ res.op = "eliminar"
    /\ res.out = "ok"
    /\ peliculas = <<>>
    /\ store = stringify(<<>>)
    /\ Called("constructor")

\* C7, as claimed: a manager constructed over the store of an emptied
\* collection holds the default set.
C7_EmptyReloadSeeds ==
    [][ReloadOfEmptied => mgr' = "ready" /\ DefaultSeeded(peliculas', now)]_vars

\* C7, amended: a manager constructed over the store of an emptied
\* collection holds an empty peliculas, and the store is left as it was.
C7_EmptyReloadStaysEmpty ==
    [][ReloadOfEmptied =>
         /\ mgr' = "ready"
         /\ peliculas' = <<>>
         /\ store' = store]_vars

\* A reload right after the last record was deleted.
C7_Witness ==
    /\ res.op = "constructor"
    /\ res.out = "ok"
    /\ prev = [op |-> "eliminar", out |-> "ok"]
    /\ peliculas = <<>>
    /\ store = stringify(<<>>)

\* C8: after a successful agregar, actualizar or eliminar, a manager
\* constructed from the stored value, at any later instant, holds records
\* equal field for field to those of peliculas, in the same order, and
\* serialising them gives the stored text again.
C8_RoundTrip ==
    (res.op \in Mutators /\ res.out = "ok") =>
        \A t \in now..MaxClock, n \in nops..MaxOps :
            LET l == cargarPeliculas(store, t, Draws(n), TRUE, TRUE)
            IN  /\ ~l.threw
                /\ l.peliculas = peliculas
                /\ stringify(l.peliculas) = store

\* A successful actualizar at instant 0 of a list of two or more records;
\* the clock can still advance before the reload.
C8_Witness ==
    /\ res.op = "actualizar"
    /\ res.out = "ok"
    /\ Len(peliculas) >= 2
    /\ now < MaxClock

\* C9: agregar of a record that fails validar returns exito: false with
\* every violated rule's message, and changes neither peliculas nor the
\* store.
C9_InvalidAddRejected ==
    [][(Called("agregar") /\ ~validar(res'.arg, now).valido) =>
         /\ res'.out = "fail"
         /\ res'.mensaje = validar(res'.arg, now).errores
         /\ Len(res'.mensaje) > 0
         /\ peliculas' = peliculas
         /\ store' = store]_vars

\* agregar turned down a record that breaks four rules.
C9_Witness ==
    /\ res.op = "agregar"
    /\ res.out = "fail"
    /\ Len(res.mensaje) = 4

\* C10: a successful agregar puts the record last in peliculas, leaves the
\* records before it as they were, writes the list to the store and returns
\* the record.
C10_AddAppends ==
    [][(Called("agregar") /\ res'.out = "ok") =>
         /\ Len(peliculas') = Len(peliculas) + 1
         /\ peliculas'[Len(peliculas')] = res'.arg
         /\ SubSeq(peliculas', 1, Len(peliculas)) = peliculas
         /\ store' = stringify(peliculas')
         /\ res'.pelicula = res'.arg]_vars

\* A successful agregar to a list that was not empty.
C10_Witness ==
    /\ res.op = "agregar"
    /\ res.out = "ok"
    /\ Len(peliculas) >= 2
    /\ peliculas[Len(peliculas)] = res.pelicula

\* C11: after a successful agregar of a record, obtenerPorId of its id
\* gives that record.
C11_AddThenGet ==
    [][(Called("agregar") /\ res'.out = "ok") =>
         obtenerPorId(peliculas', res'.arg.id) = res'.arg]_vars

\* The step is a call of actualizar or eliminar with an id no record has.
CalledWithMissingId ==
    /\ Called("actualizar") \/ Called("eliminar")
    /\ res'.id \notin Ids(peliculas)

\* C12: actualizar and eliminar of an id no record carries return the
\* not-found failure and leave peliculas and the store as they were,
\* whether or not the store would take a write.
C12_MissingIdRejected ==
    [][CalledWithMissingId =>
         /\ res'.out = "fail"
         /\ res'.mensaje = <<"Película no encontrada">>
         /\ peliculas' = peliculas
         /\ store' = store]_vars

\* actualizar of an id no record carries, on a list that is not empty.
C12_Witness ==
    /\ res.op = "actualizar"
    /\ res.id = IdMissing
    /\ res.out = "fail"
    /\ res.mensaje = <<"Película no encontrada">>
    /\ peliculas # <<>>

\* The step is a call of actualizar of an existing id with datos that make
\* a record validar turns down.
CalledWithInvalidDatos ==
    /\ Called("actualizar")
    /\ res'.id \in Ids(peliculas)
    /\ ~validar(NewPelicula(res'.arg, res'.id, now, ""), now).valido

\* C13: actualizar with datos that fail validar returns the failure with
\* the messages of validar and leaves peliculas, the record of that id
\* included, and the store as they were.
C13_InvalidUpdateRejected ==
    [][CalledWithInvalidDatos =>
         /\ res'.out = "fail"
         /\ res'.mensaje = validar(NewPelicula(res'.arg, res'.id, now, ""), now).errores
         /\ Len(res'.mensaje) > 0
         /\ peliculas' = peliculas
         /\ obtenerPorId(peliculas', res'.id) = obtenerPorId(peliculas, res'.id)
         /\ store' = store]_vars

\* actualizar of an existing record turned down for four broken rules.
C13_Witness ==
    /\ res.op = "actualizar"
    /\ res.id \in Ids(peliculas)
    /\ res.out = "fail"
    /\ Len(res.mensaje) = 4

C15_UpdateInPlace ==
    [][(Called("actualizar") /\ res'.out = "ok") =>
         /\ Len(peliculas') = Len(peliculas)
         /\ LET index == findIndex(peliculas, res'.id)
            IN  /\ index > 0
                /\ peliculas'[index].id = res'.id
                /\ peliculas'[index].titulo = res'.arg.titulo
                /\ \A j \in 1..Len(peliculas) :
                     j # index => peliculas'[j] = peliculas[j]]_vars

\* A successful actualizar of the first of two or more records.
C15_Witness ==
    /\ res.op = "actualizar"
    /\ res.out = "ok"
    /\ Len(peliculas) >= 2
    /\ peliculas[1].id = res.id
    /\ peliculas[1].titulo = res.arg.titulo
    /\ peliculas[2].titulo # res.arg.titulo

\* C16: after a successful eliminar of an id, obtenerPorId of that id gives
\* null and peliculas is one record shorter.
C16_DeleteThenGet ==
    [][(Called("eliminar") /\ res'.out = "ok") =>
         /\ obtenerPorId(peliculas', res'.id) = Null
         /\ Len(peliculas') = Len(peliculas) - 1]_vars

\* C17: whatever a caller does with a value a read operation returned,
\* peliculas changes only in a call of agregar, actualizar or eliminar.
C17_OnlyMutatorsChange ==
    [][peliculas' # peliculas => CalledMutator]_vars

QueryOps ==
    {"obtenerTodas", "obtenerPorId", "buscar", "filtrarPorGenero",
     "buscarYFiltrar", "obtenerRecientes", "ordenarPorCalificacion",
     "ordenarPorAno"}

\* C18: a call of any of the eight queries, whether it returns or throws,
\* leaves peliculas, content and order, and the store as they were.
C18_QueriesPure ==
    [][(nops' # nops /\ res'.op \in QueryOps) =>
         /\ peliculas' = peliculas
         /\ store' = store]_vars

\* ordenarPorAno returned the records in another order than peliculas
\* holds them.
C18_Witness ==
    /\ res.op = "ordenarPorAno"
    /\ Len(res.ret) >= 2
    /\ res.ret # peliculas

\* What the last query gave back: thrown, or the array returned.
Outcome == [threw |-> res.out = "threw", ret |-> res.ret]

\* The genre predicate applied to what buscar gives, and the search
\* predicate applied to what filtrarPorGenero gives.
GeneroOfBuscar(ps, termino, genero) ==
    IF buscar(ps, termino).threw THEN buscar(ps, termino)
    ELSE filtrarPorGenero(buscar(ps, termino).ret, genero)

BuscarOfGenero(ps, termino, genero) ==
    buscar(filtrarPorGenero(ps, genero).ret, termino)

\* C19: buscarYFiltrar(termino, genero) gives what the genre predicate
\* gives on the output of buscar(termino), and what the search predicate
\* gives on the output of filtrarPorGenero(genero): the same records in
\* the same order.
C19_SearchFilterCommute ==
    res.op = "buscarYFiltrar" =>
        /\ Outcome = GeneroOfBuscar(peliculas, res.arg[1], res.arg[2])
        /\ Outcome = BuscarOfGenero(peliculas, res.arg[1], res.arg[2])

\* The field value v is a text that contains termino, case ignored.
HasTerm(v, termino) ==
    v.t = "str" /\ includes(toLowerCase(v.s), toLowerCase(termino.s))

\* C20: buscar(termino) returns the records of peliculas, in the order of
\* peliculas, whose titulo, director or descripcion contains termino, case
\* ignored; all of them when termino is empty or blank.
C20_SearchIsSubsequence ==
    res.op = "buscar" =>
        /\ res.out = "ok"
        /\ res.ret =
             SelectSeq(peliculas,
                       LAMBDA p : \/ Blank(res.arg[1])
                                  \/ HasTerm(p.titulo, res.arg[1])
                                  \/ HasTerm(p.director, res.arg[1])
                                  \/ HasTerm(p.descripcion, res.arg[1]))

\* The instant of a record's fechaCreacion, as obtenerRecientes reads it.
DateOf(p) == DateValue(p.fechaCreacion)

\* In a list ordered by fechaCreacion descending, ties in the order of
\* peliculas, the record of index i can stand before the record of index j:
\* i is not the older one, and of two of the same instant i is the first.
\* A record whose fechaCreacion is no date can stand anywhere.
RecentFirst(ps, i, j) ==
    \/ DateOf(ps[i]) = NaN
    \/ DateOf(ps[j]) = NaN
    \/ DateOf(ps[i]).n > DateOf(ps[j]).n
    \/ DateOf(ps[i]).n = DateOf(ps[j]).n /\ i < j

\* ret lists the records of ps that f picks, in f's order.
Picks(ret, ps, f) ==
    /\ \A k, l \in 1..Len(ret) : k # l => f[k] # f[l]
    /\ \A k \in 1..Len(ret) : ret[k] = ps[f[k]]

\* C21: obtenerRecientes(cantidad) returns min(cantidad, length) records,
\* the most recent ones, ordered by fechaCreacion descending, records of
\* the same fechaCreacion in the order peliculas holds them.
C21_RecentOrdered ==
    res.op = "obtenerRecientes" =>
        /\ Len(res.ret) =
             (IF res.arg[1] < Len(peliculas) THEN res.arg[1] ELSE Len(peliculas))
        /\ \E f \in [1..Len(res.ret) -> 1..Len(peliculas)] :
             /\ Picks(res.ret, peliculas, f)
             /\ \A k, l \in 1..Len(res.ret) :
                  k < l => RecentFirst(peliculas, f[k], f[l])
             /\ \A k \in 1..Len(res.ret), j \in 1..Len(peliculas) :
                  (\A l \in 1..Len(res.ret) : f[l] # j) =>
                      RecentFirst(peliculas, f[k], j)

\* A manager constructed over the stored text of an empty list.
Vacio ==
    [peliculas |-> <<>>, store |-> stringify(<<>>), now |-> 0, nops |-> 1]

\* The lists made by three successful calls of agregar on an empty manager,
\* each record constructed at the instant of the one before or later.
ThreeAdded ==
    {AfterAdd(AfterAdd(AfterAdd(Vacio, x[1], t[1]), x[2], t[2]), x[3], t[3]).peliculas :
       x \in [1..3 -> {y \in AddInputs :
                         validar(NewPelicula(y.d, y.id, 0, ""), 0).valido}],
       t \in {u \in [1..3 -> 0..MaxClock] : u[1] <= u[2] /\ u[2] <= u[3]}}

\* C22: for three records constructed and added in the order A, B, C, at
\* instants the clock may or may not tell apart, obtenerRecientes(2)
\* returns C then B.
C22_RecentIsReverseCreation ==
    (res.op = "obtenerRecientes" /\ res.arg[1] = 2 /\ peliculas \in ThreeAdded) =>
        res.ret = <<peliculas[3], peliculas[2]>>

\* In a list ordered by the numbers ki and kj of the records of index i and
\* j, descending or ascending, ties in the order of peliculas, the first
\* can stand before the second.  A record whose key is NaN can stand
\* anywhere.
KeyFirst(ki, kj, i, j, descendente) ==
    \/ ki = NaN
    \/ kj = NaN
    \/ descendente /\ ki.n > kj.n
    \/ ~descendente /\ ki.n < kj.n
    \/ ki.n = kj.n /\ i < j

\* The field the sort named op orders by.
KeyOf(op, p) == IF op = "ordenarPorAno" THEN p.ano ELSE p.calificacion

\* C23: ordenarPorCalificacion(descendente) and ordenarPorAno(descendente)
\* return all the records of peliculas, each once, ordered by calificacion
\* and by ano, descending when the flag is true and ascending otherwise,
\* records of the same value in the order peliculas holds them.
C23_SortedByField ==
    res.op \in {"ordenarPorCalificacion", "ordenarPorAno"} =>
        /\ Len(res.ret) = Len(peliculas)
        /\ \E f \in [1..Len(res.ret) -> 1..Len(peliculas)] :
             /\ Picks(res.ret, peliculas, f)
             /\ \A k, l \in 1..Len(res.ret) :
                  k < l => KeyFirst(KeyOf(res.op, peliculas[f[k]]),
                                    KeyOf(res.op, peliculas[f[l]]),
                                    f[k], f[l], res.arg[1])

\* The seven rules of a record, in the order of their declaration: whether
\* the record p breaks the rule at instant t, and the rule's message.
IsText(v) == v # Undef /\ v # Null /\ v # NaN /\ v.t = "str"
IsNumber(v) == v # Undef /\ v # Null /\ v # NaN /\ v.t = "num"
TrimmedLength(v) == IF IsText(v) THEN Len(Trim(v.s)) ELSE 0
Rules(p, t) ==
    << [broken |-> TrimmedLength(p.titulo) < 2,
        mensaje |-> "El título debe tener al menos 2 caracteres"],
       [broken |-> ~(IsText(p.genero) /\ Len(p.genero.s) > 0),
        mensaje |-> "Debe seleccionar un género"],
       [broken |-> TrimmedLength(p.director) < 2,
        mensaje |-> "El director debe tener al menos 2 caracteres"],
       [broken |-> ~(IsNumber(p.ano) /\ p.ano.n >= 1900 * 10
                                     /\ p.ano.n <= (getFullYear(t) + 5) * 10),
        mensaje |-> "El año debe estar entre 1900 y el año actual + 5"],
       [broken |-> ~(IsNumber(p.calificacion) /\ p.calificacion.n >= 1 * 10
                                              /\ p.calificacion.n <= 10 * 10),
        mensaje |-> "La calificación debe estar entre 1 y 10"],
       [broken |-> TrimmedLength(p.descripcion) < 10,
        mensaje |-> "La descripción debe tener al menos 10 caracteres"],
       [broken |-> ~validarURL(p.imagen),
        mensaje |-> "Debe proporcionar una URL de imagen válida"] >>

RECURSIVE MessagesOfBroken(_)
MessagesOfBroken(rules) ==
    IF rules = <<>> THEN <<>>
    ELSE (IF Head(rules).broken THEN <<Head(rules).mensaje>> ELSE <<>>)
         \o MessagesOfBroken(Tail(rules))

\* C24: validar() gives as errores exactly the messages of the rules the
\* record breaks, every one of them, in the order title, genre, director,
\* year, rating, description, image; the list is empty for a record that
\* breaks none, the bounds 1900, current year + 5, 1 and 10 included; and
\* valido is true exactly when the list is empty.
C24_ValidateAllRules ==
    res.op = "validar" =>
        /\ res.ret.errores = MessagesOfBroken(Rules(res.pelicula, res.instante))
        /\ res.ret.valido = (res.ret.errores = <<>>)

\* A record that breaks the first and the last rule and keeps the bounds of
\* year and rating has been validated: both messages are given.
C24_Witness ==
    /\ res.op = "validar"
    /\ Len(res.ret.errores) >= 2
    /\ res.ret.errores[1] = "El título debe tener al menos 2 caracteres"
    /\ res.ret.errores[Len(res.ret.errores)] = "Debe proporcionar una URL de imagen válida"
    /\ res.pelicula.ano = Num((getFullYear(res.instante) + 5) * 10)
    /\ res.pelicula.calificacion = Num(100)

\* The ids of the records of ps, in the order of ps.
IdList(ps) == [i \in 1..Len(ps) |-> ps[i].id]

\* C25: obtenerTodas lists the records in the order their ids were added:
\* a successful agregar puts the new id after the ids listed before, a
\* successful actualizar leaves the list of ids as it was, and a successful
\* eliminar takes one record of the id given out of the list and leaves the
\* others as they were, in the order they had.
C25_InsertionOrderKept ==
    [][(CalledMutator /\ res'.out = "ok") =>
         CASE res'.op = "agregar" ->
                IdList(obtenerTodas(peliculas')) = Append(IdList(obtenerTodas(peliculas)), res'.id)
           [] res'.op = "actualizar" ->
                IdList(obtenerTodas(peliculas')) = IdList(obtenerTodas(peliculas))
           [] res'.op = "eliminar" ->
                \E k \in 1..Len(peliculas) :
                   /\ peliculas[k].id = res'.id
                   /\ obtenerTodas(peliculas') =
                        [i \in 1..(Len(peliculas) - 1) |->
                           IF i < k THEN peliculas[i] ELSE peliculas[i + 1]]]_vars

\* The manager seeded the default set, a record was added, and the second
\* of the three records has been deleted: the first default record and the
\* record added are left, in that order.
C25_Witness ==
    /\ res.op = "eliminar"
    /\ res.out = "ok"
    /\ prev.op = "agregar"
    /\ prev.out = "ok"
    /\ Len(peliculas) = 2
    /\ peliculas[1].titulo = peliculasIniciales[1].titulo
    /\ peliculas[2].titulo \in {DraftA.titulo, DraftB.titulo}

\* C26: a constructor that finds no value under the key and completes
\* leaves the default set in peliculas and its serialisation in the store;
\* a manager constructed from that store at any later instant, whatever it
\* would draw for ids, loads the same records, ids and fechaCreacion
\* included, and writes nothing.
C26_SeedWrittenOnce ==
    [][(Called("constructor") /\ store = Absent /\ res'.out = "ok") =>
         /\ DefaultSeeded(peliculas', now)
         /\ store' = stringify(peliculas')
         /\ \A t \in now..MaxClock, n \in nops'..MaxOps,
               setOk1 \in BOOLEAN, setOk2 \in BOOLEAN :
              cargarPeliculas(store', t, Draws(n), setOk1, setOk2) =
                [threw |-> FALSE, peliculas |-> peliculas', store |-> store']]_vars

\* A second manager has been constructed, at instant 1, after the first
\* seeded the default set at instant 0: it holds the records of instant 0.
C26_Witness ==
    /\ res.op = "constructor"
    /\ res.out = "ok"
    /\ prev = [op |-> "constructor", out |-> "ok"]
    /\ now = 1
    /\ DefaultSeeded(peliculas, 0)
    /\ store = stringify(peliculas)

\* The step is a call of login with a user name and a password that a
\* stored user carries.
MatchingLogin ==
    /\ Called("login")
    /\ \E i \in 1..Len(obtenerUsuarios(usuarios)) :
         /\ obtenerUsuarios(usuarios)[i].usuario = res'.arg[1]
         /\ obtenerUsuarios(usuarios)[i].password = res'.arg[2]

\* C27: estaAutenticado() is true exactly when a login that matched has
\* succeeded since the last logout.  No session exists at the start; a
\* login succeeds only when it matches a stored user, and then
\* estaAutenticado() is true; a login that fails leaves the session as it
\* was; after logout estaAutenticado() is false; no other call touches the
\* session; and estaAutenticado() returns what the session tells.
C27_SessionFollowsLogin ==
    /\ ~estaAutenticado(sesion)
    /\ [][/\ (Called("login") /\ res'.out = "ok") =>
                (MatchingLogin /\ estaAutenticado(sesion'))
          /\ (Called("login") /\ res'.out # "ok") => sesion' = sesion
          /\ Called("logout") => ~estaAutenticado(sesion')
          /\ ~(Called("login") \/ Called("logout")) =>
                estaAutenticado(sesion') = estaAutenticado(sesion)
          /\ Called("estaAutenticado") =>
                res'.ret = estaAutenticado(sesion)]_vars

\* A login has failed while a session was open: the session is still there.
C27_Witness ==
    /\ res.op = "login"
    /\ res.out = "fail"
    /\ prev = [op |-> "login", out |-> "ok"]
    /\ estaAutenticado(sesion)

\* C28: no two stored users carry the same usuario or the same email.
C28_UsersUnique ==
    \A i, j \in 1..Len(obtenerUsuarios(usuarios)) :
        i # j =>
          /\ obtenerUsuarios(usuarios)[i].usuario # obtenerUsuarios(usuarios)[j].usuario
          /\ obtenerUsuarios(usuarios)[i].email # obtenerUsuarios(usuarios)[j].email

====
